---- MODULE Spec2Model ----
(***************************************************************************)
(* Model of the ActionMenu component (src/unnamed/part_000): the open /    *)
(* closed state, the focused option, keyboard dispatch and the             *)
(* close-on-select policy; and of GetVisiblePosition                       *)
(* (src/.storybook/useBrand.js), which picks the side of its parent a      *)
(* tooltip is shown on.                                                    *)
(*                                                                         *)
(* One action models one event handler run to completion.  React state     *)
(* setters called inside a handler take effect when the handler returns;   *)
(* inside the handler `showMenu` and `currentFocusedOption` keep the value *)
(* of the render the handler was created in, so every handler below reads  *)
(* the unprimed variables and the last value passed to a setter becomes    *)
(* the primed one.                                                         *)
(*                                                                         *)
(* `calls` lists, in order, the callback invocation points reached by the  *)
(* most recent handler (`if (onMenuClose) onMenuClose()` and the like),    *)
(* `toggles` the arguments of the toggleMenu calls it made, `lastOp` names *)
(* that handler and `lastArg` is the option it was called with.            *)
(*                                                                         *)
(* The two parts share no state.  Spec runs the menu and leaves the        *)
(* variables of GetVisiblePosition at rest; SpecPosition calls             *)
(* GetVisiblePosition on measured rectangles and leaves the menu at rest.  *)
(*                                                                         *)
(* `onMenuClose` is what the close callback given by the parent does: it   *)
(* returns, or it calls toggleMenu(true) before it returns.  Spec runs the *)
(* menu with the first, SpecReentrant with the second.  SpecWalk presses   *)
(* one arrow key again and again and records in `walk` the options the     *)
(* focus went through.                                                     *)
(***************************************************************************)
EXTENDS Integers, Sequences, FiniteSets

VARIABLES options, closeOnSelect, showMenu, currentFocusedOption,
          calls, toggles, lastOp, lastArg, onMenuClose, walk,
          tooltipDomRect, parentDomRect, window, documentElement,
          position, visiblePosition

menuVars == <<options, closeOnSelect, showMenu, currentFocusedOption,
              calls, toggles, lastOp, lastArg, onMenuClose, walk>>

positionVars == <<tooltipDomRect, parentDomRect, window, documentElement,
                  position, visiblePosition>>

vars == <<menuVars, positionVars>>

\* Longest option list explored.
MaxLen == 3

\* Labels tell the options of a list apart; the option at position i of a
\* list carries the i-th label.
LabelAt(i) == IF i = 1 THEN "A" ELSE IF i = 2 THEN "B" ELSE IF i = 3 THEN "C"
              ELSE IF i = 4 THEN "D" ELSE "E"

\* An option has a value of its own or the value "x", which several options
\* of a list may share.
OwnValue(i) == IF i = 1 THEN "a" ELSE IF i = 2 THEN "b" ELSE IF i = 3 THEN "c"
               ELSE IF i = 4 THEN "d" ELSE "e"

ValuesAt(i) == {"x", OwnValue(i)}

\* The value of `currentFocusedOption` before any option was focused.
Undefined == [label |-> "undefined", value |-> "undefined", disabled |-> FALSE]

\* The options that can stand at position i of a list.
OptionsAt(i) ==
  {[label |-> LabelAt(i), value |-> value, disabled |-> disabled] :
     value \in ValuesAt(i), disabled \in BOOLEAN}

OptionType == UNION {OptionsAt(i) : i \in 1..MaxLen}

OptionLists ==
  UNION {{s \in [1..n -> OptionType] : \A i \in 1..n : s[i] \in OptionsAt(i)}
         : n \in 0..MaxLen}

Keys == {"Enter", " ", "ArrowDown", "ArrowUp", "Escape", "Tab", "Home", "End"}

\* A key that is not a member of Keys.
OtherKey == "a"

FocusDirection == {"first", "last", "up", "down"}

\* closeOnSelect is a boolean or a function of the option; the function
\* explored is `option.value === 'x'`.
ClosePolicies == {"true", "false", "function"}

\* isOptionDisabled that takes every option for an enabled one.
isOptionDisabled_Never(option) == FALSE

\* Every element of actionMenuOptions has type 'list', so the flag is read;
\* an option without a `disabled` field reads as disabled = FALSE.
isOptionDisabled(option) == option.disabled

----------------------------------------------------------------------------
\* The effect of a handler so far: the value last passed to setShowMenu and
\* the callbacks and toggleMenu calls made.
Effect0 == [show |-> showMenu, calls |-> <<>>, toggles |-> <<>>]

Call(cb, arg) == [cb |-> cb, arg |-> arg]

\* toggleMenu(true) called by the close callback before it returns; the open
\* callback returns.
toggleMenuFromCallback(e) ==
  [show    |-> TRUE,
   calls   |-> Append(e.calls, Call("onMenuOpen", Undefined)),
   toggles |-> Append(e.toggles, TRUE)]

\* toggleMenu that reports only a change of state.
toggleMenu_EdgeTriggered(e, open) ==
  [show    |-> open,
   calls   |-> IF open = e.show THEN e.calls
               ELSE Append(e.calls,
                           IF ~open THEN Call("onMenuClose", Undefined)
                                    ELSE Call("onMenuOpen", Undefined)),
   toggles |-> Append(e.toggles, open)]

\* toggleMenu that sets the state after the callback has returned.
toggleMenu_SetsStateLast(e, open) ==
  LET e1 == [e EXCEPT !.toggles = Append(@, open)]
      e2 == IF ~open
            THEN LET e3 == [e1 EXCEPT
                              !.calls = Append(@, Call("onMenuClose", Undefined))]
                 IN  IF onMenuClose = "toggleMenu(true)"
                     THEN toggleMenuFromCallback(e3) ELSE e3
            ELSE [e1 EXCEPT !.calls = Append(@, Call("onMenuOpen", Undefined))]
  IN  [e2 EXCEPT !.show = open]

\* setShowMenu(open) comes first, then the callback, which runs to its end
\* before toggleMenu returns.
toggleMenu(e, open) ==
  LET e1 == [show    |-> open,
             calls   |-> Append(e.calls,
                                IF ~open THEN Call("onMenuClose", Undefined)
                                         ELSE Call("onMenuOpen", Undefined)),
             toggles |-> Append(e.toggles, open)]
  IN  IF ~open /\ onMenuClose = "toggleMenu(true)"
      THEN toggleMenuFromCallback(e1) ELSE e1

\* closeMenuOnSelect that takes a function for a truthy flag.
closeMenuOnSelect_Truthy(option) == closeOnSelect # "false"

closeMenuOnSelect(option) ==
  IF closeOnSelect = "function" THEN option.value = "x"
  ELSE closeOnSelect = "true"

\* selectOption that closes the menu before it reports the selection.
selectOption_ClosesFirst(e, option) ==
  LET e1 == IF closeMenuOnSelect(option) THEN toggleMenu(e, FALSE) ELSE e
  IN  [e1 EXCEPT !.calls = Append(@, Call("onOptionSelect", option))]

selectOption(e, option) ==
  LET e1 == [e EXCEPT !.calls = Append(@, Call("onOptionSelect", option))]
  IN  IF closeMenuOnSelect(option) THEN toggleMenu(e1, FALSE) ELSE e1

----------------------------------------------------------------------------
enabledOptions == SelectSeq(options, LAMBDA option : ~isOptionDisabled(option))

\* Array.prototype.findIndex on `enabledOption.value === value`: the
\* 0-based index of the first match, -1 when there is none.
findIndex(seq, value) ==
  IF \E i \in 1..Len(seq) : seq[i].value = value
  THEN (CHOOSE i \in 1..Len(seq) :
          /\ seq[i].value = value
          /\ \A j \in 1..(i - 1) : seq[j].value # value) - 1
  ELSE -1

currentFocusedIndex ==
  IF currentFocusedOption # Undefined
  THEN findIndex(enabledOptions, currentFocusedOption.value)
  ELSE -1

\* focusOption that navigates the whole list, disabled options included.
focusOption_Unfiltered(direction) ==
  LET n == Len(options)
      idx == IF currentFocusedOption # Undefined
             THEN findIndex(options, currentFocusedOption.value) ELSE -1
      at(k) == options[k + 1]
  IN  IF n = 0 THEN currentFocusedOption
      ELSE IF direction = "up" THEN at(IF idx > 0 THEN idx - 1 ELSE n - 1)
      ELSE IF direction = "down" THEN at((idx + 1) % n)
      ELSE IF direction = "last" THEN at(n - 1)
      ELSE at(0)

\* focusOption without the early return: indexing an empty array yields
\* undefined, which is stored.
focusOption_NoEarlyReturn(direction) ==
  LET n == Len(enabledOptions)
      at(k) == enabledOptions[k + 1]
  IN  IF n = 0 THEN Undefined
      ELSE IF direction = "up"
           THEN at(IF currentFocusedIndex > 0 THEN currentFocusedIndex - 1
                   ELSE n - 1)
      ELSE IF direction = "down" THEN at((currentFocusedIndex + 1) % n)
      ELSE IF direction = "last" THEN at(n - 1)
      ELSE at(0)

\* focusOption whose 'first' and 'last' act only when nothing is focused.
focusOption_KeepsFocus(direction) ==
  LET n == Len(enabledOptions)
      at(k) == enabledOptions[k + 1]
  IN  IF n = 0 THEN currentFocusedOption
      ELSE IF direction = "up"
           THEN at(IF currentFocusedIndex > 0 THEN currentFocusedIndex - 1
                   ELSE n - 1)
      ELSE IF direction = "down" THEN at((currentFocusedIndex + 1) % n)
      ELSE IF currentFocusedIndex # -1 THEN currentFocusedOption
      ELSE IF direction = "last" THEN at(n - 1)
      ELSE at(0)

\* focusOption that stops at the ends of the enabled options.
focusOption_NoWrap(direction) ==
  LET n == Len(enabledOptions)
      at(k) == enabledOptions[k + 1]
  IN  IF n = 0 THEN currentFocusedOption
      ELSE IF direction = "up"
           THEN at(IF currentFocusedIndex > 0 THEN currentFocusedIndex - 1
                   ELSE 0)
      ELSE IF direction = "down"
           THEN at(IF currentFocusedIndex + 1 < n THEN currentFocusedIndex + 1
                   ELSE n - 1)
      ELSE IF direction = "last" THEN at(n - 1)
      ELSE at(0)

\* The value of currentFocusedOption after focusOption(direction).
focusOption(direction) ==
  LET n == Len(enabledOptions)
      at(k) == enabledOptions[k + 1]
  IN  IF n = 0 THEN currentFocusedOption
      ELSE IF direction = "up"
           THEN at(IF currentFocusedIndex > 0 THEN currentFocusedIndex - 1
                   ELSE n - 1)
      ELSE IF direction = "down" THEN at((currentFocusedIndex + 1) % n)
      ELSE IF direction = "last" THEN at(n - 1)
      ELSE at(0)

\* Escape that closes an open menu.
CaseEscape_Closes == IF showMenu THEN toggleMenu(Effect0, ~showMenu) ELSE Effect0

\* case Keys.Escape
CaseEscape == IF showMenu THEN toggleMenu(Effect0, showMenu) ELSE Effect0

\* Enter that toggles only when no option is focused.
CaseEnter_NoFocusOnly ==
  LET e1 == IF currentFocusedOption # Undefined
            THEN selectOption(Effect0, currentFocusedOption)
            ELSE Effect0
  IN  IF currentFocusedOption = Undefined
      THEN toggleMenu(e1, ~showMenu) ELSE e1

\* Enter that toggles only a closed menu.
CaseEnter_ClosedOnly ==
  LET e1 == IF currentFocusedOption # Undefined
            THEN selectOption(Effect0, currentFocusedOption)
            ELSE Effect0
  IN  IF ~showMenu THEN toggleMenu(e1, ~showMenu) ELSE e1

\* Enter that toggles in every case.
CaseEnter_AlwaysToggles ==
  LET e1 == IF currentFocusedOption # Undefined
            THEN selectOption(Effect0, currentFocusedOption)
            ELSE Effect0
  IN  toggleMenu(e1, ~showMenu)

\* case Keys.Enter
CaseEnter ==
  LET e1 == IF currentFocusedOption # Undefined
            THEN selectOption(Effect0, currentFocusedOption)
            ELSE Effect0
  IN  IF (currentFocusedOption = Undefined /\ showMenu) \/ ~showMenu
      THEN toggleMenu(e1, ~showMenu) ELSE e1

\* Space that toggles the menu.
CaseSpace_Toggles == toggleMenu(Effect0, ~showMenu)

\* case Keys.Space
CaseSpace == IF ~showMenu THEN toggleMenu(Effect0, TRUE) ELSE Effect0

\* Tab that closes an open menu.
CaseTab_Closes == IF showMenu THEN toggleMenu(Effect0, FALSE) ELSE Effect0

\* case Keys.Tab
CaseTab == IF showMenu THEN toggleMenu(Effect0, showMenu) ELSE Effect0

\* A switch whose default case falls into the Tab case.
KeyEffect_DefaultTab(key) ==
  IF key = "Escape" THEN CaseEscape
  ELSE IF key = "Enter" THEN CaseEnter
  ELSE IF key = " " THEN CaseSpace
  ELSE IF key \in {"ArrowUp", "ArrowDown", "Home", "End"} THEN Effect0
  ELSE CaseTab

\* The effect of the switch of handleOnKeyDown on the menu.
KeyEffect(key) ==
  IF key = "Escape" THEN CaseEscape
  ELSE IF key = "Enter" THEN CaseEnter
  ELSE IF key = " " THEN CaseSpace
  ELSE IF key = "Tab" THEN CaseTab
  ELSE Effect0

\* Navigation keys that act on an open menu only.
KeyFocus_OpenOnly(key) ==
  IF ~showMenu THEN currentFocusedOption
  ELSE IF key = "ArrowUp" THEN focusOption("up")
  ELSE IF key = "ArrowDown" THEN focusOption("down")
  ELSE IF key = "Home" THEN focusOption("first")
  ELSE IF key = "End" THEN focusOption("last")
  ELSE currentFocusedOption

\* Enter that drops the focus.
KeyFocus_EnterClears(key) ==
  IF key = "ArrowUp" THEN focusOption("up")
  ELSE IF key = "ArrowDown" THEN focusOption("down")
  ELSE IF key = "Home" THEN focusOption("first")
  ELSE IF key = "End" THEN focusOption("last")
  ELSE IF key = "Enter" THEN Undefined
  ELSE currentFocusedOption

\* The focus the switch of handleOnKeyDown leaves.
KeyFocus(key) ==
  IF key = "ArrowUp" THEN focusOption("up")
  ELSE IF key = "ArrowDown" THEN focusOption("down")
  ELSE IF key = "Home" THEN focusOption("first")
  ELSE IF key = "End" THEN focusOption("last")
  ELSE currentFocusedOption

----------------------------------------------------------------------------
\* GetVisiblePosition and the predicates it is made of.

\* Largest coordinate and size explored.
MaxCoord == 2

Coords == 0..MaxCoord

Positions == {"top", "right", "bottom", "left"}

\* A position argument that is none of the four.
OtherPosition == "bottom-end"

\* The value of `position` and `visiblePosition` before the first call.
NoPosition == "none"

\* hasPlaceAtTop that asks for room to spare.
hasPlaceAtTop_Strict(tooltip, parent) == parent.top > tooltip.height

hasPlaceAtTop(tooltip, parent) == parent.top >= tooltip.height

hasPlaceAtLeft(tooltip, parent) == parent.left >= tooltip.width

\* `window.innerHeight || documentElement.clientHeight`
clientHeight ==
  IF window.innerHeight # 0 THEN window.innerHeight
  ELSE documentElement.clientHeight

\* `window.innerWidth || documentElement.clientWidth`
clientWidth ==
  IF window.innerWidth # 0 THEN window.innerWidth
  ELSE documentElement.clientWidth

hasPlaceAtBottom(tooltip, parent) ==
  tooltip.height <= clientHeight - parent.bottom

hasPlaceAtRight(tooltip, parent) ==
  tooltip.width <= clientWidth - parent.right

isNotFittingOnTopButCanOnBottom(tooltip, parent) ==
  ~hasPlaceAtTop(tooltip, parent) /\ hasPlaceAtBottom(tooltip, parent)

isNotFittingOnRightButCanOnLeft(tooltip, parent) ==
  ~hasPlaceAtRight(tooltip, parent) /\ hasPlaceAtLeft(tooltip, parent)

isNotFittingOnBottomButCanOnTop(tooltip, parent) ==
  ~hasPlaceAtBottom(tooltip, parent) /\ hasPlaceAtTop(tooltip, parent)

\* A flip to the right whenever the left has no place.
isNotFittingOnLeftButCanOnRight_Unchecked(tooltip, parent) ==
  ~hasPlaceAtLeft(tooltip, parent)

isNotFittingOnLeftButCanOnRight(tooltip, parent) ==
  ~hasPlaceAtLeft(tooltip, parent) /\ hasPlaceAtRight(tooltip, parent)

\* GetVisiblePosition whose 'right' case falls back to the bottom.
GetVisiblePosition_RightToBottom(tooltip, parent, pos) ==
  IF pos = "top"
  THEN IF isNotFittingOnTopButCanOnBottom(tooltip, parent)
       THEN "bottom" ELSE "top"
  ELSE IF pos = "right"
  THEN IF isNotFittingOnRightButCanOnLeft(tooltip, parent)
       THEN "bottom" ELSE "right"
  ELSE IF pos = "bottom"
  THEN IF isNotFittingOnBottomButCanOnTop(tooltip, parent)
       THEN "top" ELSE "bottom"
  ELSE IF pos = "left"
  THEN IF isNotFittingOnLeftButCanOnRight(tooltip, parent)
       THEN "right" ELSE "left"
  ELSE "top"

\* GetVisiblePosition whose 'bottom' case tests what the 'top' case tests.
GetVisiblePosition_BottomTestsTop(tooltip, parent, pos) ==
  IF pos = "top"
  THEN IF isNotFittingOnTopButCanOnBottom(tooltip, parent)
       THEN "bottom" ELSE "top"
  ELSE IF pos = "right"
  THEN IF isNotFittingOnRightButCanOnLeft(tooltip, parent)
       THEN "left" ELSE "right"
  ELSE IF pos = "bottom"
  THEN IF isNotFittingOnTopButCanOnBottom(tooltip, parent)
       THEN "top" ELSE "bottom"
  ELSE IF pos = "left"
  THEN IF isNotFittingOnLeftButCanOnRight(tooltip, parent)
       THEN "right" ELSE "left"
  ELSE "top"

\* GetVisiblePosition that hands an unknown position back.
GetVisiblePosition_DefaultSame(tooltip, parent, pos) ==
  IF pos = "top"
  THEN IF isNotFittingOnTopButCanOnBottom(tooltip, parent)
       THEN "bottom" ELSE "top"
  ELSE IF pos = "right"
  THEN IF isNotFittingOnRightButCanOnLeft(tooltip, parent)
       THEN "left" ELSE "right"
  ELSE IF pos = "bottom"
  THEN IF isNotFittingOnBottomButCanOnTop(tooltip, parent)
       THEN "top" ELSE "bottom"
  ELSE IF pos = "left"
  THEN IF isNotFittingOnLeftButCanOnRight(tooltip, parent)
       THEN "right" ELSE "left"
  ELSE pos

GetVisiblePosition(tooltip, parent, pos) ==
  IF pos = "top"
  THEN IF isNotFittingOnTopButCanOnBottom(tooltip, parent)
       THEN "bottom" ELSE "top"
  ELSE IF pos = "right"
  THEN IF isNotFittingOnRightButCanOnLeft(tooltip, parent)
       THEN "left" ELSE "right"
  ELSE IF pos = "bottom"
  THEN IF isNotFittingOnBottomButCanOnTop(tooltip, parent)
       THEN "top" ELSE "bottom"
  ELSE IF pos = "left"
  THEN IF isNotFittingOnLeftButCanOnRight(tooltip, parent)
       THEN "right" ELSE "left"
  ELSE "top"

\* The measured size of a tooltip.
TooltipRects == [width : Coords, height : Coords]

\* The measured rectangle of a parent: top <= bottom and left <= right.
ParentRects ==
  {r \in [top : Coords, right : Coords, bottom : Coords, left : Coords] :
     r.top <= r.bottom /\ r.left <= r.right}

\* No call of GetVisiblePosition was made.
PositionAtRest ==
  /\ tooltipDomRect = [width |-> 0, height |-> 0]
  /\ parentDomRect = [top |-> 0, right |-> 0, bottom |-> 0, left |-> 0]
  /\ window = [innerWidth |-> 0, innerHeight |-> 0]
  /\ documentElement = [clientWidth |-> 0, clientHeight |-> 0]
  /\ position = NoPosition
  /\ visiblePosition = NoPosition

----------------------------------------------------------------------------
\* The value of `walk` when no arrow key is being pressed again and again.
NoWalk == [key |-> "none", visited |-> <<>>]

\* A handler returns: the state setters take effect.
Handle(e, focus, op, arg) ==
  /\ lastArg' = arg
  /\ showMenu' = e.show
  /\ calls' = e.calls
  /\ toggles' = e.toggles
  /\ currentFocusedOption' = focus
  /\ lastOp' = op
  /\ UNCHANGED <<options, closeOnSelect, onMenuClose>>
  /\ UNCHANGED positionVars

Commit(e, focus, op, arg) ==
  /\ Handle(e, focus, op, arg)
  /\ UNCHANGED walk

Init ==
  /\ options \in OptionLists
  /\ closeOnSelect \in ClosePolicies
  /\ showMenu \in BOOLEAN
  /\ currentFocusedOption = Undefined
  /\ calls = <<>>
  /\ toggles = <<>>
  /\ lastOp = "init"
  /\ lastArg = Undefined
  /\ onMenuClose = "returns"
  /\ walk = NoWalk
  /\ PositionAtRest

\* The menu as constructed by a parent whose close callback calls
\* toggleMenu(true).
InitReentrant ==
  /\ options \in OptionLists
  /\ closeOnSelect \in ClosePolicies
  /\ showMenu \in BOOLEAN
  /\ currentFocusedOption = Undefined
  /\ calls = <<>>
  /\ toggles = <<>>
  /\ lastOp = "init"
  /\ lastArg = Undefined
  /\ onMenuClose = "toggleMenu(true)"
  /\ walk = NoWalk
  /\ PositionAtRest

\* The List reports a pointer hover over one of its options.
HoverOption ==
  \E i \in 1..Len(options) :
    Commit(Effect0, options[i], "hoverOption", options[i])

\* The List reports the choice of one of its options.
SelectOption ==
  \E i \in 1..Len(options) :
    Commit(selectOption(Effect0, options[i]), currentFocusedOption,
           "selectOption", options[i])

\* focusOption called on its own, with any direction.
FocusOption ==
  \E direction \in FocusDirection :
    Commit(Effect0, focusOption(direction), direction, Undefined)

\* toggleMenu called on its own, with either argument.
ToggleMenu ==
  \E open \in BOOLEAN :
    Commit(toggleMenu(Effect0, open), currentFocusedOption, "toggleMenu",
           Undefined)

HandleOnKeyDown ==
  \E key \in Keys \cup {OtherKey} :
    Commit(KeyEffect(key), KeyFocus(key), key, Undefined)

\* A click that opens the menu whatever its state.
OnClick_Opens ==
  Commit(toggleMenu(Effect0, TRUE), currentFocusedOption, "onClick", Undefined)

\* Click on the reference element.
OnClick ==
  Commit(toggleMenu(Effect0, ~showMenu), currentFocusedOption, "onClick",
         Undefined)

\* The Dropdown asks to be closed.
OnClose ==
  Commit(toggleMenu(Effect0, FALSE), currentFocusedOption, "onClose",
         Undefined)

\* The parent renders the menu with another option list.  Lists change one
\* option per render (one option replaced, one appended or the last one
\* removed); every list is reached by a sequence of such renders.
SetOptions ==
  /\ \/ \E i \in 1..Len(options) :
          \E option \in OptionsAt(i) :
            /\ option # options[i]
            /\ options' = [options EXCEPT ![i] = option]
     \/ /\ Len(options) < MaxLen
        /\ \E option \in OptionsAt(Len(options) + 1) :
             options' = Append(options, option)
     \/ /\ Len(options) > 0
        /\ options' = SubSeq(options, 1, Len(options) - 1)
  /\ calls' = <<>>
  /\ toggles' = <<>>
  /\ lastOp' = "setOptions"
  /\ lastArg' = Undefined
  /\ UNCHANGED <<closeOnSelect, showMenu, currentFocusedOption>>
  /\ UNCHANGED <<onMenuClose, walk>>
  /\ UNCHANGED positionVars

Next ==
  \/ HoverOption
  \/ SelectOption
  \/ FocusOption
  \/ ToggleMenu
  \/ HandleOnKeyDown
  \/ OnClick
  \/ OnClose
  \/ SetOptions

Spec == Init /\ [][Next]_vars

SpecReentrant == InitReentrant /\ [][Next]_vars

----------------------------------------------------------------------------
\* ArrowDown or ArrowUp is pressed with the focus on an enabled option, and
\* then again, the same key, up to as many times as there are enabled
\* options.  `walk` records the option the focus started on and the option
\* each press left it on.
PressArrow ==
  \E key \in {"ArrowDown", "ArrowUp"} :
    /\ \E i \in 1..Len(options) :
         options[i] = currentFocusedOption /\ ~options[i].disabled
    /\ \/ walk = NoWalk
       \/ walk.key = key /\ Len(walk.visited) <= Len(enabledOptions)
    /\ walk' = [key |-> key,
                visited |-> Append(IF walk = NoWalk
                                   THEN <<currentFocusedOption>>
                                   ELSE walk.visited,
                                   KeyFocus(key))]
    /\ Handle(KeyEffect(key), KeyFocus(key), key, Undefined)

\* A hover puts the focus on the option the presses start from.
HoverBeforeWalk == walk = NoWalk /\ HoverOption

NextWalk ==
  \/ HoverBeforeWalk
  \/ PressArrow

SpecWalk == Init /\ [][NextWalk]_vars

----------------------------------------------------------------------------
\* The menu as constructed with the default props and no option.
MenuAtRest ==
  /\ options = <<>>
  /\ closeOnSelect = "true"
  /\ showMenu = FALSE
  /\ currentFocusedOption = Undefined
  /\ calls = <<>>
  /\ toggles = <<>>
  /\ lastOp = "init"
  /\ lastArg = Undefined
  /\ onMenuClose = "returns"
  /\ walk = NoWalk

\* The rectangles and the viewport as measured.  A window that reports an
\* inner size has a document element of that size; one that reports none
\* (0) leaves the size to the document element.
InitPosition ==
  /\ MenuAtRest
  /\ tooltipDomRect \in TooltipRects
  /\ parentDomRect \in ParentRects
  /\ window \in [innerWidth : Coords, innerHeight : Coords]
  /\ documentElement \in
       {d \in [clientWidth : Coords, clientHeight : Coords] :
          /\ window.innerWidth # 0 => d.clientWidth = window.innerWidth
          /\ window.innerHeight # 0 => d.clientHeight = window.innerHeight}
  /\ position = NoPosition
  /\ visiblePosition = NoPosition

\* GetVisiblePosition is called on the measured rectangles with a position.
CallGetVisiblePosition ==
  \E pos \in Positions \cup {OtherPosition} :
    /\ position' = pos
    /\ visiblePosition' = GetVisiblePosition(tooltipDomRect, parentDomRect, pos)
    /\ UNCHANGED <<tooltipDomRect, parentDomRect, window, documentElement>>
    /\ UNCHANGED menuVars

NextPosition == CallGetVisiblePosition

SpecPosition == InitPosition /\ [][NextPosition]_vars

----------------------------------------------------------------------------
\* Vocabulary of the properties.

OnMenuOpen == Call("onMenuOpen", Undefined)
OnMenuClose == Call("onMenuClose", Undefined)
OnOptionSelect(option) == Call("onOptionSelect", option)

\* How many times the last handler reached the callback `cb`.
Count(cb) == Cardinality({i \in 1..Len(calls) : calls[i].cb = cb})

\* How many times the last handler called toggleMenu(open).
CountToggle(open) == Cardinality({i \in 1..Len(toggles) : toggles[i] = open})

\* The focus is one of the enabled options of the current list.
FocusIsEnabledOption ==
  \E i \in 1..Len(options) :
    options[i] = currentFocusedOption /\ ~options[i].disabled

FocusEmptyOrEnabled == currentFocusedOption = Undefined \/ FocusIsEnabledOption

MoveOps == {"first", "last", "up", "down", "ArrowUp", "ArrowDown", "Home", "End"}

\* What the close-on-select policy yields for an option: Always, Never, or
\* the predicate `value = "x"`.
PolicyYields(option) ==
  \/ closeOnSelect = "true"
  \/ closeOnSelect = "function" /\ option.value = "x"

----------------------------------------------------------------------------
\* C1 (as stated): in every reachable state the focus is empty or refers to
\* an option of the current list whose disabled flag is false.
C1_FocusAlwaysEnabled == FocusEmptyOrEnabled

\* C1 (amended): every handler other than a hover over a disabled option
\* keeps the focus empty or on an enabled option of the list, as long as
\* the list itself is not replaced.
C1_FocusStaysEnabled ==
  [][(/\ FocusEmptyOrEnabled
      /\ options' = options
      /\ ~(lastOp' = "hoverOption" /\ isOptionDisabled(lastArg')))
     => FocusEmptyOrEnabled']_vars

\* A move that skipped a disabled first option and landed on an enabled one.
C1_Witness ==
  /\ lastOp \in {"ArrowDown", "Home"}
  /\ Len(options) >= 2
  /\ options[1].disabled
  /\ FocusIsEnabledOption

\* C2: Escape and Tab never close the menu.  On an open menu they call
\* toggleMenu(true): the menu stays open, the open callback is reached once
\* and the close callback is not; on a closed menu they do nothing.
C2_EscapeTabNeverClose ==
  [][lastOp' \in {"Escape", "Tab"} =>
       IF showMenu
       THEN showMenu' /\ toggles' = <<TRUE>> /\ calls' = <<OnMenuOpen>>
       ELSE /\ ~showMenu' /\ toggles' = <<>> /\ calls' = <<>>
            /\ UNCHANGED <<options, closeOnSelect, currentFocusedOption>>]_vars

\* Escape or Tab was handled on an open menu, which is open still.
C2_Witness ==
  /\ lastOp \in {"Escape", "Tab"}
  /\ showMenu
  /\ calls = <<OnMenuOpen>>

\* C3: toggleMenu is level-triggered.  A call toggleMenu(b) sets the state to
\* b and reaches exactly one callback, the open one for true and the close
\* one for false, whatever the state was; and in every handler the open
\* callback is reached as often as toggleMenu(true) is called and the close
\* callback as often as toggleMenu(false).
C3_ToggleLevelTriggered ==
  /\ [][lastOp' = "toggleMenu" =>
          \E open \in BOOLEAN :
            /\ toggles' = <<open>>
            /\ showMenu' = open
            /\ calls' = <<IF open THEN OnMenuOpen ELSE OnMenuClose>>]_vars
  /\ [](/\ Count("onMenuOpen") = CountToggle(TRUE)
        /\ Count("onMenuClose") = CountToggle(FALSE))

\* A handler called toggleMenu(false) on a closed menu and then
\* toggleMenu(true): both callbacks were reached.
C3_Witness ==
  /\ toggles = <<FALSE, TRUE>>
  /\ Count("onMenuClose") = 1
  /\ Count("onMenuOpen") = 1

\* C4: selectOption(o) reaches the selection callback exactly once, with o,
\* and calls toggleMenu(false) exactly when the close-on-select policy
\* yields true for o; otherwise the state is unchanged and neither the open
\* nor the close callback is reached.
C4_SelectOptionPolicy ==
  [][lastOp' = "selectOption" =>
       IF PolicyYields(lastArg')
       THEN /\ calls' = <<OnOptionSelect(lastArg'), OnMenuClose>>
            /\ toggles' = <<FALSE>>
            /\ ~showMenu'
       ELSE /\ calls' = <<OnOptionSelect(lastArg')>>
            /\ toggles' = <<>>
            /\ showMenu' = showMenu]_vars

\* With the predicate policy, an option other than "x" was selected on an
\* open menu, which is open still.
C4_Witness ==
  /\ lastOp = "selectOption"
  /\ closeOnSelect = "function"
  /\ lastArg.value # "x"
  /\ showMenu
  /\ calls = <<OnOptionSelect(lastArg)>>

\* C5: Enter on a closed menu always opens it: whatever the focus and the
\* close-on-select policy are, the menu is open afterwards and the open
\* callback was reached exactly once.
C5_EnterOpensClosedMenu ==
  [][(lastOp' = "Enter" /\ ~showMenu) =>
       (showMenu' /\ Cardinality({i \in 1..Len(calls') :
                                    calls'[i] = OnMenuOpen}) = 1)]_vars

\* Enter was handled on a closed menu with a focused option that the policy
\* closes on: the menu is open.
C5_Witness ==
  /\ lastOp = "Enter"
  /\ showMenu
  /\ currentFocusedOption # Undefined
  /\ PolicyYields(currentFocusedOption)
  /\ Count("onMenuOpen") = 1

\* C6: Enter on an open menu without a focused option selects nothing and
\* calls toggleMenu(false): the menu is closed and the close callback was
\* reached exactly once.
C6_EnterNoFocusCloses ==
  [][(lastOp' = "Enter" /\ showMenu /\ currentFocusedOption = Undefined) =>
       (/\ ~showMenu'
        /\ toggles' = <<FALSE>>
        /\ calls' = <<OnMenuClose>>)]_vars

\* Enter was handled on an open menu without focus, which is closed now.
C6_Witness ==
  /\ lastOp = "Enter"
  /\ currentFocusedOption = Undefined
  /\ ~showMenu
  /\ calls = <<OnMenuClose>>

\* C7: Enter on an open menu with a focused option f calls selectOption(f)
\* and toggles no further: the selection callback is reached once with f,
\* the open callback never, the close callback once if the policy yields
\* true for f and never otherwise, and the menu is open afterwards exactly
\* when the policy yields false.
C7_EnterSelectsFocused ==
  [][(lastOp' = "Enter" /\ showMenu /\ currentFocusedOption # Undefined) =>
       (/\ calls' = IF PolicyYields(currentFocusedOption)
                    THEN <<OnOptionSelect(currentFocusedOption), OnMenuClose>>
                    ELSE <<OnOptionSelect(currentFocusedOption)>>
        /\ toggles' = IF PolicyYields(currentFocusedOption)
                      THEN <<FALSE>> ELSE <<>>
        /\ showMenu' = ~PolicyYields(currentFocusedOption))]_vars

\* Enter selected the focused option of an open menu whose policy does not
\* close on it: the menu is open still.
C7_Witness ==
  /\ lastOp = "Enter"
  /\ showMenu
  /\ currentFocusedOption # Undefined
  /\ ~PolicyYields(currentFocusedOption)
  /\ calls = <<OnOptionSelect(currentFocusedOption)>>

\* C8: after focusOption, in any direction and from any prior focus, the
\* focus is an enabled option of the list whenever the list has one.
C8_MoveNeverFocusesDisabled ==
  (lastOp \in MoveOps /\ \E i \in 1..Len(options) : ~options[i].disabled)
    => FocusIsEnabledOption

\* A move to the end that skipped a disabled last option.
C8_Witness ==
  /\ lastOp \in {"End", "last"}
  /\ Len(options) >= 2
  /\ options[Len(options)].disabled
  /\ FocusIsEnabledOption

\* The 0-based position of an enabled option in the enabled options.
PositionInEnabled(option) ==
  CHOOSE k \in 0..(Len(enabledOptions) - 1) : enabledOptions[k + 1] = option

\* C9: with the focus on the enabled option at index idx of the count
\* enabled options, down moves it to index (idx + 1) mod count and up to
\* index idx - 1, or to count - 1 when idx = 0.
C9_UpDownFromFocused ==
  [][FocusIsEnabledOption =>
       LET count == Len(enabledOptions)
           idx == PositionInEnabled(currentFocusedOption)
       IN  /\ lastOp' \in {"down", "ArrowDown"} =>
                currentFocusedOption' = enabledOptions[((idx + 1) % count) + 1]
           /\ lastOp' \in {"up", "ArrowUp"} =>
                currentFocusedOption' =
                  enabledOptions[(IF idx > 0 THEN idx - 1 ELSE count - 1) + 1]]_vars

\* C10: when the focus is empty or is not one of the enabled options of the
\* list (a disabled option, or one the list no longer has) and the list has
\* an enabled option, down moves the focus to the first enabled option and
\* up to the last.
C10_UpDownFromNoFocus ==
  [][(~FocusIsEnabledOption /\ Len(enabledOptions) > 0) =>
       /\ lastOp' \in {"down", "ArrowDown"} =>
            currentFocusedOption' = enabledOptions[1]
       /\ lastOp' \in {"up", "ArrowUp"} =>
            currentFocusedOption' = enabledOptions[Len(enabledOptions)]]_vars

\* C11: when the list has no enabled option (every option disabled, or no
\* option at all), focusOption in any direction changes nothing: the focus
\* and the open state stay as they were and no callback is reached.
C11_MoveWithoutEnabledIsNoOp ==
  [][(lastOp' \in MoveOps /\ \A i \in 1..Len(options) : options[i].disabled)
     => (/\ currentFocusedOption' = currentFocusedOption
         /\ showMenu' = showMenu
         /\ calls' = <<>>
         /\ toggles' = <<>>)]_vars

\* A move was handled on a list of disabled options only, while one of them
\* had the focus (by hover): it has the focus still.
C11_Witness ==
  /\ lastOp \in MoveOps
  /\ Len(options) >= 1
  /\ \A i \in 1..Len(options) : options[i].disabled
  /\ currentFocusedOption # Undefined

\* The positions of the list that hold an enabled option.
EnabledPositions == {i \in 1..Len(options) : ~options[i].disabled}

\* The position in the list of one of its options.
PositionOf(option) == CHOOSE i \in 1..Len(options) : options[i] = option

\* C12: 'first' puts the focus on the earliest enabled option of the list
\* and 'last' on the latest, whatever the focus was; the enabled options
\* are the enabled options of the list in the order of the list.
C12_FirstLastInListOrder ==
  /\ (lastOp \in {"first", "Home"} /\ EnabledPositions # {}) =>
       \E i \in EnabledPositions :
         /\ currentFocusedOption = options[i]
         /\ \A j \in EnabledPositions : i <= j
  /\ (lastOp \in {"last", "End"} /\ EnabledPositions # {}) =>
       \E i \in EnabledPositions :
         /\ currentFocusedOption = options[i]
         /\ \A j \in EnabledPositions : j <= i
  /\ Len(enabledOptions) = Cardinality(EnabledPositions)
  /\ \A j, k \in 1..Len(enabledOptions) :
       j < k => /\ PositionOf(enabledOptions[j]) \in EnabledPositions
                /\ PositionOf(enabledOptions[k]) \in EnabledPositions
                /\ PositionOf(enabledOptions[j]) < PositionOf(enabledOptions[k])

\* Home was handled on a list whose first option is disabled and whose last
\* two are enabled: the focus is on the second.
C12_Witness ==
  /\ lastOp = "Home"
  /\ Len(options) = 3
  /\ EnabledPositions = {2, 3}
  /\ currentFocusedOption = options[2]

\* The direction a navigation key stands for.
DirectionOf(key) ==
  IF key = "ArrowUp" THEN "up" ELSE IF key = "ArrowDown" THEN "down"
  ELSE IF key = "Home" THEN "first" ELSE "last"

\* C16: ArrowUp, ArrowDown, Home and End apply focusOption('up'), ('down'),
\* ('first') and ('last') on an open and on a closed menu alike, leave the
\* open state as it is and reach no callback.
C16_NavigationKeysInBothStates ==
  [][lastOp' \in {"ArrowUp", "ArrowDown", "Home", "End"} =>
       (/\ currentFocusedOption' = focusOption(DirectionOf(lastOp'))
        /\ showMenu' = showMenu
        /\ calls' = <<>>
        /\ toggles' = <<>>)]_vars

\* ArrowDown moved the focus of a closed menu onto the second of two
\* enabled options.
C16_Witness ==
  /\ lastOp = "ArrowDown"
  /\ ~showMenu
  /\ Len(options) = 2
  /\ EnabledPositions = {1, 2}
  /\ currentFocusedOption = options[2]
  /\ calls = <<>>

\* C17: Space on a closed menu calls toggleMenu(true): the menu opens and
\* the open callback is reached once.  Space on an open menu does nothing:
\* no option is selected, even when one is focused.
C17_SpaceOpensOnly ==
  [][lastOp' = " " =>
       IF ~showMenu
       THEN showMenu' /\ toggles' = <<TRUE>> /\ calls' = <<OnMenuOpen>>
            /\ currentFocusedOption' = currentFocusedOption
       ELSE showMenu' /\ toggles' = <<>> /\ calls' = <<>>
            /\ currentFocusedOption' = currentFocusedOption]_vars

\* Space was handled on an open menu with a focused option: nothing was
\* selected and the menu is open still.
C17_Witness ==
  /\ lastOp = " "
  /\ showMenu
  /\ currentFocusedOption # Undefined
  /\ calls = <<>>

\* C18: a key that is none of Enter, Space, ArrowUp, ArrowDown, Escape,
\* Tab, Home and End is ignored: the open state and the focus stay as they
\* were and no callback is reached.
C18_OtherKeyIgnored ==
  [][lastOp' = OtherKey =>
       (/\ showMenu' = showMenu
        /\ currentFocusedOption' = currentFocusedOption
        /\ calls' = <<>>
        /\ toggles' = <<>>)]_vars

\* An unrecognised key was handled on an open menu with a focused option.
C18_Witness ==
  /\ lastOp = OtherKey
  /\ showMenu
  /\ currentFocusedOption # Undefined
  /\ calls = <<>>

----------------------------------------------------------------------------
\* Vocabulary of the properties of GetVisiblePosition.

\* The viewport: the inner size of the window, or the size of the document
\* element when the window reports none.
ViewportHeight ==
  IF window.innerHeight # 0 THEN window.innerHeight
  ELSE documentElement.clientHeight

ViewportWidth ==
  IF window.innerWidth # 0 THEN window.innerWidth
  ELSE documentElement.clientWidth

\* The tooltip fits on a side of its parent; equality counts as fitting.
Fits(side) ==
  IF side = "top" THEN parentDomRect.top >= tooltipDomRect.height
  ELSE IF side = "bottom"
  THEN tooltipDomRect.height <= ViewportHeight - parentDomRect.bottom
  ELSE IF side = "left" THEN parentDomRect.left >= tooltipDomRect.width
  ELSE tooltipDomRect.width <= ViewportWidth - parentDomRect.right

Opposite(side) ==
  IF side = "top" THEN "bottom" ELSE IF side = "bottom" THEN "top"
  ELSE IF side = "left" THEN "right" ELSE "left"

\* GetVisiblePosition was called.
Called == visiblePosition # NoPosition

\* C13: for each of the four positions, GetVisiblePosition returns the
\* opposite side exactly when the tooltip does not fit on the preferred
\* side and fits on the opposite one, and the preferred side otherwise.
C13_FlipsExactlyWhenOppositeFits ==
  (Called /\ position \in Positions) =>
    /\ (visiblePosition = Opposite(position)) <=>
         (~Fits(position) /\ Fits(Opposite(position)))
    /\ (visiblePosition = position) <=>
         (Fits(position) \/ ~Fits(Opposite(position)))

\* The tooltip is exactly as high as the room above its parent and would
\* fit below as well: 'top' was kept.
C13_Witness ==
  /\ position = "top"
  /\ visiblePosition = "top"
  /\ tooltipDomRect.height > 0
  /\ parentDomRect.top = tooltipDomRect.height
  /\ Fits("bottom")

\* C14: when the flip condition is false the preferred side is returned
\* unchanged, both when the preferred side fits (the opposite may fit too)
\* and when neither side fits.
C14_KeepsPreferredWithoutFlip ==
  (Called /\ position \in Positions) =>
    /\ Fits(position) => visiblePosition = position
    /\ (~Fits(position) /\ ~Fits(Opposite(position))) =>
         visiblePosition = position

\* The tooltip fits neither left nor right of its parent: 'left' was kept.
C14_Witness ==
  /\ position = "left"
  /\ ~Fits("left")
  /\ ~Fits("right")
  /\ visiblePosition = "left"

\* C15: the result is on the axis of the preferred side: top or bottom for
\* top and bottom, left or right for left and right.
C15_NeverPerpendicular ==
  Called =>
    /\ position \in {"top", "bottom"} => visiblePosition \in {"top", "bottom"}
    /\ position \in {"left", "right"} => visiblePosition \in {"left", "right"}

\* 'right' was flipped to 'left' although the tooltip fits above and below.
C15_Witness ==
  /\ position = "right"
  /\ visiblePosition = "left"
  /\ Fits("top")
  /\ Fits("bottom")

\* C20: a position that is none of top, right, bottom and left yields
\* 'top', whatever the rectangles and the viewport are.
C20_UnknownPositionYieldsTop ==
  (Called /\ position \notin Positions) => visiblePosition = "top"

\* An unknown position yielded 'top' although the tooltip fits below its
\* parent and not above.
C20_Witness ==
  /\ position = OtherPosition
  /\ visiblePosition = "top"
  /\ ~Fits("top")
  /\ Fits("bottom")

----------------------------------------------------------------------------
\* No two enabled options of the list have the same value.
DistinctEnabledValues ==
  \A i, j \in 1..Len(enabledOptions) :
    i # j => enabledOptions[i].value # enabledOptions[j].value

\* C21: when the enabled options have pairwise distinct values and the focus
\* starts on an enabled option, each press of ArrowDown moves the focus to
\* the next enabled option, the first after the last, and each press of
\* ArrowUp to the previous one, the last before the first; after as many
\* presses as there are enabled options every enabled option was left
\* exactly once and the focus is back on the option it started on.
C21_CircularWalk ==
  (walk # NoWalk /\ DistinctEnabledValues) =>
    LET k == Len(enabledOptions)
        visited == walk.visited
    IN  /\ \A j \in 1..Len(visited) :
             \E i \in 1..k : enabledOptions[i] = visited[j]
        /\ \A j \in 1..(Len(visited) - 1) :
             PositionInEnabled(visited[j + 1]) =
               IF walk.key = "ArrowDown"
               THEN (PositionInEnabled(visited[j]) + 1) % k
               ELSE (PositionInEnabled(visited[j]) + k - 1) % k
        /\ Len(visited) = k + 1 =>
             /\ visited[k + 1] = visited[1]
             /\ \A i \in 1..k :
                  Cardinality({j \in 1..k : visited[j] = enabledOptions[i]}) = 1

\* Three presses of ArrowUp over three enabled options with distinct values
\* went through the three of them and came back to the first.
C21_Witness ==
  /\ walk.key = "ArrowUp"
  /\ DistinctEnabledValues
  /\ Len(enabledOptions) = 3
  /\ Len(walk.visited) = 4
  /\ walk.visited[1] = enabledOptions[1]
  /\ walk.visited[2] = enabledOptions[3]
  /\ walk.visited[4] = enabledOptions[1]

\* C22: when the close callback calls toggleMenu(true), a call of
\* toggleMenu(false) reaches the close callback and then, before it returns,
\* the open callback; toggleMenu ran twice, with false and then with true,
\* and the menu is open once the handler has returned.
C22_ReentrantToggleOpens ==
  [][(lastOp' \in {"toggleMenu", "onClose"} /\ toggles' # <<>>
      /\ toggles'[1] = FALSE) =>
       /\ calls' = <<OnMenuClose, OnMenuOpen>>
       /\ toggles' = <<FALSE, TRUE>>
       /\ showMenu']_vars

\* toggleMenu(false) on an open menu whose close callback reopens it.
C22_Witness ==
  /\ onMenuClose = "toggleMenu(true)"
  /\ lastOp = "toggleMenu"
  /\ toggles = <<FALSE, TRUE>>
  /\ calls = <<OnMenuClose, OnMenuOpen>>
  /\ showMenu

\* C23: Enter on a closed menu with a focused option for which the
\* close-on-select policy yields true reaches onOptionSelect with that
\* option, then onMenuClose, then onMenuOpen, and leaves the menu open.
C23_EnterOnClosedSelectsClosesOpens ==
  [][(lastOp' = "Enter" /\ ~showMenu /\ currentFocusedOption # Undefined
      /\ PolicyYields(currentFocusedOption)) =>
       /\ calls' = <<OnOptionSelect(currentFocusedOption), OnMenuClose,
                     OnMenuOpen>>
       /\ showMenu']_vars

\* Enter on a closed menu selected the focused option, closed and opened.
C23_Witness ==
  /\ lastOp = "Enter"
  /\ currentFocusedOption # Undefined
  /\ PolicyYields(currentFocusedOption)
  /\ calls = <<OnOptionSelect(currentFocusedOption), OnMenuClose, OnMenuOpen>>
  /\ toggles = <<FALSE, TRUE>>
  /\ showMenu

\* C24: ArrowUp, ArrowDown, Home, End, Space, Escape, Tab and a key the
\* switch does not list never take the menu from open to closed and never
\* reach onMenuClose.
C24_OnlyEnterCloses ==
  [][lastOp' \in (Keys \ {"Enter"}) \cup {OtherKey} =>
       /\ showMenu => showMenu'
       /\ \A i \in 1..Len(calls') : calls'[i] # OnMenuClose]_vars

\* Tab on an open menu called toggleMenu(true): the menu is still open.
C24_Witness ==
  /\ lastOp = "Tab"
  /\ toggles = <<TRUE>>
  /\ calls = <<OnMenuOpen>>
  /\ showMenu

\* C25: toggleMenu, the click and the close request that call it,
\* selectOption and the keys Enter, Space, Escape and Tab leave the focus as
\* it was, whether they close the menu or open it.
C25_FocusKeptAcrossCloseAndOpen ==
  [][lastOp' \in {"toggleMenu", "onClick", "onClose", "selectOption",
                  "Enter", " ", "Escape", "Tab"} =>
       currentFocusedOption' = currentFocusedOption]_vars

\* Enter closed an open menu and the focus is still on an option.
C25_Witness ==
  /\ lastOp = "Enter"
  /\ ~showMenu
  /\ toggles = <<FALSE>>
  /\ currentFocusedOption # Undefined

\* C26 (as stated): with at least two enabled options and the focus on one
\* of them, 'down' and 'up' move the focus to another option of the list.
C26_UpDownLeaveFocusedOption ==
  [][(FocusIsEnabledOption /\ Len(enabledOptions) >= 2
      /\ lastOp' \in {"down", "up", "ArrowDown", "ArrowUp"}) =>
       currentFocusedOption' # currentFocusedOption]_vars

\* C27: the position GetVisiblePosition returned for one of the four
\* positions is returned as it is when it is given back with the same
\* rectangles and viewport.
C27_GetVisiblePositionIdempotent ==
  (Called /\ position \in Positions) =>
    GetVisiblePosition(tooltipDomRect, parentDomRect, visiblePosition)
      = visiblePosition

\* 'top' was flipped to 'bottom'.
C27_Witness ==
  /\ position = "top"
  /\ visiblePosition = "bottom"
  /\ ~Fits("top")
  /\ Fits("bottom")

\* C28: a click on the reference calls toggleMenu(!showMenu) once: the menu
\* changes state and a closed menu reaches onMenuOpen once, an open one
\* onMenuClose once; the close request of the dropdown calls
\* toggleMenu(false) once and reaches onMenuClose once, on a closed menu
\* too.
C28_ClickTogglesCloseRequestCloses ==
  [][/\ lastOp' = "onClick" =>
          /\ showMenu' = ~showMenu
          /\ toggles' = <<~showMenu>>
          /\ calls' = <<IF showMenu THEN OnMenuClose ELSE OnMenuOpen>>
     /\ lastOp' = "onClose" =>
          /\ ~showMenu'
          /\ toggles' = <<FALSE>>
          /\ calls' = <<OnMenuClose>>]_vars

\* A click closed the menu.
C28_Witness ==
  /\ lastOp = "onClick"
  /\ ~showMenu
  /\ toggles = <<FALSE>>
  /\ calls = <<OnMenuClose>>

====
